---- MODULE Spec2Model ----
(***************************************************************************)
(* Model of yc_scraper/scraper.py: the asyncio pipeline of main(), the     *)
(* worker tasks, scrape_one's retry loop, the periodic checkpoint task and *)
(* save_checkpoint's write-then-replace on the file system.                *)
(*                                                                         *)
(* One step of the model is the code a task runs between two suspension    *)
(* points of the event loop (await fetch / sleep / queue.get / join).      *)
(* save_checkpoint is synchronous, so no task runs while it is in          *)
(* progress; its three file-system effects are separate steps only so that *)
(* a kill of the process can fall between them.                            *)
(*                                                                         *)
(* Specifications: Spec (the pipeline from load_links on), LiveSpec (the   *)
(* same run with a healthy disk under the event loop's fairness),          *)
(* ScrapeSpec (scrape_one's retry loop taken alone, with its sleep times), *)
(* ExtractSpec (merge, list normalisation and key mapping of scrape_one    *)
(* over the dicts the two extractions can return) and JoinSpec             *)
(* (as_semicolon over lists of strings).                                   *)
(***************************************************************************)
EXTENDS Integers, Sequences, FiniteSets, TLC

(* ------------------------------ bounds --------------------------------- *)

MaxLinks == 2
\* largest --concurrency value explored (0 is accepted by argparse type=int)
MaxConcurrency == 2
\* largest retries argument explored for scrape_one taken alone
MaxRetries == 5
\* longest list handed to as_semicolon taken alone
MaxValues == 4

(* ------------------------- program constants --------------------------- *)

\* scrape_one(..., retries: int = 4); worker() never passes retries
DefaultRetries == 4

\* parser.add_argument("--rpm", type=int, default=120)
DefaultRpm == 120

URLs == {"u1", "u2"}

\* what client.get can give fetch(): None (non-200, error, timeout), the
\* empty text of a 200 response, a page that extracts, a page on which the
\* extraction raises (website[0] of an empty list, .strip() of a non-string)
NoContent == "None"
EmptyText == ""
GoodPages == {"p1"}
RaisingPages == {"pRaise"}
FetchOutcomes == {NoContent, EmptyText} \cup GoodPages \cup RaisingPages

OutputKeys ==
  {"YC Link", "Active Founders", "Founders LinkedIn Link", "Status", "Website",
   "Primary Partner", "Founded Year", "Team Size", "Batch", "Location"}

(* --------------------------- field mappings ---------------------------- *)

\* scrape_one, retries exhausted: return {"YC Link": url}
Placeholder(url) == [k \in {"YC Link"} |-> url]

\* scrape_one, content obtained: the ten-key mapping; the extracted values
\* are kept abstract (the page that produced them)
MappedRow(url, html) == [k \in OutputKeys |-> IF k = "YC Link" THEN url ELSE html]

\* Python truthiness of fetch()'s result in `if html:`
Truthy(html) == html # NoContent /\ html # EmptyText

ExtractRaises(html) == html \in RaisingPages

(* --------------------------- Python values ----------------------------- *)

\* the values the two extractions put in their dicts, tagged with their
\* Python type; a str is the sequence of its characters
PyNone == [t |-> "None"]
PyStr(s) == [t |-> "str", s |-> s]
PyInt(i) == [t |-> "int", i |-> i]
PyList(l) == [t |-> "list", l |-> l]
PyDict(d) == [t |-> "dict", d |-> d]
\* a str that is a target URL, kept whole
PyUrl(u) == [t |-> "str", u |-> u]

IsEmptyValueFalsy(v) ==
  v \in {PyNone, PyStr(<< >>), PyList(<< >>), PyDict(<< >>), PyInt(0)}

\* out[k] in (None, "", [], {}): == against each element, so 0 is not in it
IsEmptyValue(v) == v \in {PyNone, PyStr(<< >>), PyList(<< >>), PyDict(<< >>)}

\* isinstance(v, list)
IsList(v) == v.t = "list"

\* d.get(k)
DictGet(d, k) == IF k \in DOMAIN d THEN d[k] ELSE PyNone

(* -------------------------- merge_preferring_left ---------------------- *)

\* out = dict(a); for k, v in b.items():
\*   if k not in out or out[k] in (None, "", [], {}): out[k] = v
\* (every key of b is visited once, and the test on k reads only out[k])
MergePreferringLeft(a, b) ==
  [k \in (DOMAIN a) \cup (DOMAIN b) |->
     IF k \in DOMAIN b /\ (k \notin DOMAIN a \/ IsEmptyValue(a[k]))
     THEN b[k] ELSE a[k]]

(* ------------------------------ as_semicolon --------------------------- *)

\* the characters of the strings explored; str.strip() removes the first
Whitespace == {" "}

RECURSIVE LStrip(_)
LStrip(s) ==
  IF s # << >> /\ Head(s) \in Whitespace THEN LStrip(Tail(s)) ELSE s

RECURSIVE RStrip(_)
RStrip(s) ==
  IF s # << >> /\ s[Len(s)] \in Whitespace
  THEN RStrip(SubSeq(s, 1, Len(s) - 1)) ELSE s

\* v.strip()
Strip(s) == RStrip(LStrip(s))

RECURSIVE CleanedNoStrip(_)
CleanedNoStrip(vs) ==
  IF vs = << >> THEN << >>
  ELSE IF Head(vs) # << >> /\ Strip(Head(vs)) # << >>
       THEN <<Head(vs)>> \o CleanedNoStrip(Tail(vs))
       ELSE CleanedNoStrip(Tail(vs))

RECURSIVE Cleaned(_)
\* cleaned = [v.strip() for v in values if v and str(v).strip()]
Cleaned(vs) ==
  IF vs = << >> THEN << >>
  ELSE IF Head(vs) # << >> /\ Strip(Head(vs)) # << >>
       THEN <<Strip(Head(vs))>> \o Cleaned(Tail(vs))
       ELSE Cleaned(Tail(vs))

RECURSIVE FromKeysFrom(_, _)
\* dict.fromkeys(cleaned): the keys in the order of their first insertion
FromKeysFrom(vs, seen) ==
  IF vs = << >> THEN << >>
  ELSE IF Head(vs) \in seen THEN FromKeysFrom(Tail(vs), seen)
       ELSE <<Head(vs)>> \o FromKeysFrom(Tail(vs), seen \cup {Head(vs)})

FromKeys(vs) == FromKeysFrom(vs, {})

\* the separator of "; ".join
Separator == <<";", " ">>

RECURSIVE Join(_, _)
\* sep.join(keys)
Join(sep, ks) ==
  IF ks = << >> THEN << >>
  ELSE IF Len(ks) = 1 THEN ks[1]
  ELSE ks[1] \o sep \o Join(sep, Tail(ks))

\* as_semicolon(values)
AsSemicolon(vs) == Join(Separator, FromKeys(Cleaned(vs)))

(* ------------------ the extraction path of scrape_one ------------------ *)

\* the keys extract_from_next_data always sets once __NEXT_DATA__ parsed
StructAlways ==
  {"status", "primary_partner", "founded_year", "team_size", "batch", "location"}

\* the keys it sets only for a usable value
StructOptional == {"website", "active_founders", "founders_linkedin"}

\* the keys parse_html_fallback always sets
FbAlways ==
  {"primary_partner", "status", "location", "founded_year", "team_size",
   "batch", "founders", "founders_linkedin"}

\* the key it sets only when an outbound link exists
FbOptional == {"website"}

\* if "active_founders" in out and isinstance(out["active_founders"], list):
\*   out["Active Founders"] = as_semicolon(out["active_founders"]); the same
\* for founders_linkedin
NormalizeList(o, src, dst) ==
  IF src \in DOMAIN o /\ IsList(o[src])
  THEN [k \in (DOMAIN o) \cup {dst} |->
          IF k = dst THEN PyStr(AsSemicolon(o[src].l)) ELSE o[k]]
  ELSE o

NormalizeLists(o) ==
  NormalizeList(NormalizeList(o, "active_founders", "Active Founders"),
                "founders_linkedin", "Founders LinkedIn Link")

\* the internal key each output column is read from
ColumnKey ==
  [c \in OutputKeys \ {"YC Link"} |->
     CASE c = "Website" -> "website"
       [] c = "Status" -> "status"
       [] c = "Primary Partner" -> "primary_partner"
       [] c = "Founded Year" -> "founded_year"
       [] c = "Team Size" -> "team_size"
       [] c = "Batch" -> "batch"
       [] c = "Location" -> "location"
       [] c = "Active Founders" -> "Active Founders"
       [] c = "Founders LinkedIn Link" -> "Founders LinkedIn Link"]

\* mapped = {"YC Link": url, "Website": out.get("website"), ...}
MapToOutputKeys(url, o) ==
  [c \in OutputKeys |->
     IF c = "YC Link" THEN PyUrl(url) ELSE DictGet(o, ColumnKey[c])]

(* ------------------------------ paths ---------------------------------- *)

\* a path is the sequence of its dot-separated components
OutputPath == <<"out", "csv">>

\* pathlib with_suffix: the last suffix (if any) is replaced by sfx
WithSuffix(path, sfx) ==
  IF Len(path) > 1 THEN SubSeq(path, 1, Len(path) - 1) \o sfx ELSE path \o sfx

Suffix(path) == IF Len(path) > 1 THEN <<path[Len(path)]>> ELSE << >>

\* ckpt_path = output_path.with_suffix(output_path.suffix + ".ckpt.json")
CkptPath == WithSuffix(OutputPath, Suffix(OutputPath) \o <<"ckpt", "json">>)

TmpPathSame(path) == path

\* tmp = path.with_suffix(".tmp")
TmpPath(path) == WithSuffix(path, <<"tmp">>)

\* input_path = Path(args.input)
InputPath == <<"in", "csv">>

Paths == {InputPath, OutputPath, CkptPath, TmpPath(CkptPath)}

\* file contents: no file, an open file holding part of a dump, a closed file
Absent == [kind |-> "absent", data |-> << >>]
Partial == [kind |-> "partial", data |-> << >>]
Complete(d) == [kind |-> "complete", data |-> d]

\* checkpoint files no run of this program wrote: bytes that are not JSON,
\* a path that exists and cannot be opened for reading, and valid JSON that
\* is not an object (the number 1)
Garbage == [kind |-> "garbage", data |-> << >>]
Unreadable == [kind |-> "unreadable", data |-> << >>]
JsonNumber == [kind |-> "json_number", data |-> << >>]

\* an input CSV: the column names of its header, and the "YC Link" cell of
\* each row (no cells when the column is missing)
CsvFile(names, cells) == Complete([fieldnames |-> names, cells |-> cells])

HasLinkColumnAlways(file) == TRUE

\* "YC Link" in reader.fieldnames
HasLinkColumn(file) == "YC Link" \in file.data.fieldnames

\* if row.get("YC Link")
NonEmptyCell(c) == c # ""

\* return [row["YC Link"] for row in reader if row.get("YC Link")]
LoadLinks(file) == SelectSeq(file.data.cells, NonEmptyCell)

(* ------------------------------ queue ---------------------------------- *)

\* queue.put_nowait(None)
Sentinel == <<-1, "None">>

\* a dict with one more assignment d[k] = v
DictSet(d, k, v) == [x \in (DOMAIN d) \cup {k} |-> IF x = k THEN v ELSE d[x]]

EmptyDict == << >>

RECURSIVE SeedFrom(_, _, _)
\* for idx, url in enumerate(links): if url in results: continue; put_nowait
SeedFrom(ls, res, i) ==
  IF i > Len(ls) THEN << >>
  ELSE IF ls[i] \in DOMAIN res THEN SeedFrom(ls, res, i + 1)
  ELSE <<(<<i - 1, ls[i]>>)>> \o SeedFrom(ls, res, i + 1)

SeedAll(ls, res) == SeedFrom(ls, EmptyDict, 1)

Seed(ls, res) == SeedFrom(ls, res, 1)

AssembleRowsNoDefault(ls, res) ==
  [i \in 1..Len(ls) |-> IF ls[i] \in DOMAIN res THEN res[ls[i]] ELSE EmptyDict]

\* rows = [results.get(url, {"YC Link": url}) for url in links]
AssembleRows(ls, res) ==
  [i \in 1..Len(ls) |-> IF ls[i] \in DOMAIN res THEN res[ls[i]] ELSE Placeholder(ls[i])]

(* --------------------------- scrape_one -------------------------------- *)

\* the state of one call of scrape_one: where it is suspended, its attempt
\* counter, and how many fetches and backoff sleeps it has made
IdleCall ==
  [pc |-> "idle", url |-> "None", retries |-> 0, attempt |-> 0,
   fetches |-> 0, sleeps |-> 0, failed |-> 0, result |-> EmptyDict]

\* entry: attempt = 0; while True: attempt += 1; html = await fetch(...)
ScrapeCall(url, retries) ==
  [pc |-> "fetch", url |-> url, retries |-> retries, attempt |-> 1,
   fetches |-> 1, sleeps |-> 0, failed |-> 0, result |-> EmptyDict]

ExhaustedOffByOne(c) == c.attempt >= c.retries

\* if attempt > retries: return {"YC Link": url}
Exhausted(c) == c.attempt > c.retries

\* fetch() returned html: the code up to the next suspension point or return
ScrapeOnFetch(c, html) ==
  IF Truthy(html)
  THEN IF ExtractRaises(html)
       THEN [c EXCEPT !.pc = "raised"]
       ELSE [c EXCEPT !.pc = "returned", !.result = MappedRow(c.url, html)]
  ELSE IF Exhausted(c)
       THEN [c EXCEPT !.pc = "returned", !.failed = @ + 1,
                      !.result = Placeholder(c.url)]
       ELSE [c EXCEPT !.pc = "backoff", !.failed = @ + 1, !.sleeps = @ + 1]

\* the backoff sleep ended: next iteration, attempt += 1, await fetch
ScrapeOnWake(c) ==
  [c EXCEPT !.pc = "fetch", !.attempt = @ + 1, !.fetches = @ + 1]

(* ------------------------------ state ---------------------------------- *)

VARIABLES
  links,        \* load_links(input_path): the targets, in file order
  concurrency,  \* args.concurrency
  resume,       \* args.resume
  mainPc,       \* where main() is
  queue,        \* asyncio.Queue: the items not yet taken by a get()
  unfinished,   \* asyncio.Queue._unfinished_tasks
  results,      \* the shared Result Set (dict url -> mapping)
  loaded,       \* history: the Result Set this run started from
  seeded,       \* history: the items main put on the queue before the tasks ran
  rows,         \* main's ordered row list
  wPc,          \* per worker task: "get", "scrape", "pace", "done"
  wItem,        \* per worker task: the item it holds
  wCall,        \* per worker task: its call of scrape_one
  cpPc,         \* the checkpoint_loop task
  savePc,       \* save_checkpoint in progress: "idle", "opened", "written"
  files,        \* the file system: path -> content
  writes,       \* history: per url, how often results[url] was assigned in this run
  acks,         \* history: per dequeued item, how often task_done() was called for it
  raised,       \* history: the work items whose processing raised
  call,         \* a call of scrape_one taken alone
  prevCall,     \* the call before it, when the call is repeated
  rpm,          \* args.rpm, the rpm argument of scrape_one
  fetched,      \* history: what the last fetch() of the call returned
  slept,        \* history: the last backoff sleep of the call
  nextData,     \* extraction path: what extract_from_next_data returned
  fb,           \* extraction path: what parse_html_fallback returned
  out,          \* extraction path: scrape_one's out dict
  mapped,       \* extraction path: the mapping scrape_one returns
  xPc,          \* extraction path: "parsed", "merged", "normalized", "mapped"
  values,       \* as_semicolon taken alone: its argument
  joined        \* as_semicolon taken alone: its result (None before the call)

vars ==
  <<links, concurrency, resume, mainPc, queue, unfinished, results, loaded,
    seeded, rows, wPc, wItem, wCall, cpPc, savePc, files, writes, acks, raised,
    call, prevCall,
    rpm, fetched, slept, nextData, fb, out, mapped, xPc, values, joined>>

config == <<links, concurrency, resume>>
scrapeVars == <<call, prevCall, rpm, fetched, slept>>
extractVars == <<nextData, fb, out, mapped, xPc>>
joinVars == <<values, joined>>
\* the variables of the functions taken alone, which the pipeline leaves alone
unitVars == <<scrapeVars, extractVars, joinVars>>

\* range(args.concurrency): empty for 0 and for negative values
Workers == 0..(concurrency - 1)

NoItem == <<-2, "None">>

\* any(not w.done() for w in workers)
AnyWorkerNotDone(pcs) == \E w \in DOMAIN pcs : pcs[w] # "done"

\* json.load returns the JSON value of the file whatever its type: a dict
\* only when the file holds a JSON object
LoadGivesDict(file) == file.kind # "json_number"

\* load_checkpoint, when it gives a dict: {} if the path does not exist, or
\* open or json.load raises; the object of the file otherwise
LoadCheckpoint(file) ==
  CASE file.kind = "complete" -> file.data
    [] file.kind \in {"absent", "partial", "garbage", "unreadable"} -> EmptyDict

InitialResultsAlways(res, file) == LoadCheckpoint(file)

\* results = {}; if args.resume: results = load_checkpoint(ckpt_path)
InitialResults(res, file) == IF res THEN LoadCheckpoint(file) ELSE EmptyDict

DrainedWhenEmpty(q, unf) == q = << >>

\* await queue.join(): returns once every put item has had its task_done()
Drained(q, unf) == unf = 0

\* Result Sets an earlier run can have left in the checkpoint file: an
\* exhausted target, and a scraped target that need not be in this run's input
PriorResults ==
  { [u \in {"u1"} |-> Placeholder(u)],
    [u \in {"u2"} |-> MappedRow(u, "p1")] }

\* the checkpoint files a run can find; a run without --resume never reads
\* the file, so one existing file is enough there
PriorCheckpoints(res) ==
  IF res
  THEN {Absent, Garbage, Unreadable, JsonNumber} \cup {Complete(d) : d \in PriorResults}
  ELSE {Complete([u \in {"u2"} |-> MappedRow(u, "p1")])}

LinkLists == UNION {[1..n -> URLs] : n \in 0..MaxLinks}

\* the input files a run can be given: the link column with one URL per
\* row, with an empty cell before a URL, and a header without the column
InputFiles ==
  {CsvFile({"YC Link"}, ls) : ls \in LinkLists}
  \cup {CsvFile({"YC Link"}, <<"", "u1">>), CsvFile({"Name"}, << >>)}

\* the tasks of main() exist and the event loop is running them
Running == mainPc \in {"join", "gather"}

(* ------------------- the functions taken alone, idle ------------------- *)

\* no backoff sleep made yet
NoSleep == [k |-> 0, ms |-> 0, jitter |-> 0, prev |-> 0]

\* no call of scrape_one taken alone; --rpm at its default
ScrapeIdle ==
  /\ call = IdleCall
  /\ prevCall = IdleCall
  /\ rpm = DefaultRpm
  /\ fetched = NoContent
  /\ slept = NoSleep

ExtractIdle ==
  /\ nextData = EmptyDict
  /\ fb = EmptyDict
  /\ out = EmptyDict
  /\ mapped = EmptyDict
  /\ xPc = "none"

JoinIdle ==
  /\ values = << >>
  /\ joined = PyNone

(* ------------------------------- Init ---------------------------------- *)

\* main() after parse_args, with the input file and the files an earlier
\* run left. Without --resume, and with a checkpoint file that does not
\* load, main starts from results = {} exactly as with --resume and no
\* checkpoint file, which is explored on every list; those runs start on
\* the inputs of at most one row.
Init ==
  /\ links = << >>
  /\ concurrency \in 0..MaxConcurrency
  /\ resume \in BOOLEAN
  /\ \E input \in InputFiles, prior \in PriorCheckpoints(resume) :
       /\ resume \/ Len(input.data.cells) <= 1
       /\ prior \in {Garbage, Unreadable} => Len(input.data.cells) <= 1
       /\ files = [p \in Paths |-> IF p = InputPath THEN input
                                  ELSE IF p = CkptPath THEN prior ELSE Absent]
  /\ mainPc = "load"
  /\ queue = << >>
  /\ unfinished = 0
  /\ results = EmptyDict
  /\ loaded = EmptyDict
  /\ seeded = << >>
  /\ rows = << >>
  /\ wPc = << >>
  /\ wItem = << >>
  /\ wCall = << >>
  /\ cpPc = "none"
  /\ savePc = "idle"
  /\ writes = [u \in URLs |-> 0]
  /\ acks = EmptyDict
  /\ raised = {}
  /\ ScrapeIdle
  /\ ExtractIdle
  /\ JoinIdle

(* ------------------------------- main ---------------------------------- *)

\* len(workers) sentinels
SentinelsFor(n) == [i \in 1..n |-> Sentinel]

\* links = load_links(input_path): ValueError without the link column
MainLoadLinks ==
  /\ mainPc = "load"
  /\ IF HasLinkColumn(files[InputPath])
     THEN /\ links' = LoadLinks(files[InputPath])
          /\ mainPc' = "start"
     ELSE /\ links' = links
          /\ mainPc' = "failed_load_links"
  /\ UNCHANGED <<concurrency, resume, queue, unfinished, results, loaded, seeded,
                 rows, wPc, wItem, wCall, cpPc, savePc, files, writes, acks, raised, unitVars>>

\* results = load_checkpoint(ckpt_path) gave a value that is not a dict (the
\* number 1): `if results:` holds and len(results) raises TypeError
MainResumeFail ==
  /\ mainPc = "start"
  /\ resume
  /\ ~LoadGivesDict(files[CkptPath])
  /\ mainPc' = "failed_resume"
  /\ UNCHANGED <<config, queue, unfinished, results, loaded, seeded, rows, wPc,
                 wItem, wCall, cpPc, savePc, files, writes, acks, raised, unitVars>>

\* results = load_checkpoint(...) if args.resume; seed the queue; create the
\* worker tasks and cp_task; reach `await queue.join()`
MainSetup ==
  /\ mainPc = "start"
  /\ resume => LoadGivesDict(files[CkptPath])
  /\ LET res == InitialResults(resume, files[CkptPath])
         q == Seed(links, res)
     IN /\ results' = res
        /\ loaded' = res
        /\ queue' = q
        /\ seeded' = q
        /\ unfinished' = Len(q)
  /\ wPc' = [w \in Workers |-> "get"]
  /\ wItem' = [w \in Workers |-> NoItem]
  /\ wCall' = [w \in Workers |-> IdleCall]
  /\ cpPc' = "new"
  /\ mainPc' = "join"
  /\ UNCHANGED <<config, rows, savePc, files, writes, acks, raised, unitVars>>

\* queue.join() returns; for _ in workers: queue.put_nowait(None);
\* reach `await asyncio.gather(*workers)`
MainJoinReturn ==
  /\ mainPc = "join"
  /\ savePc = "idle"
  /\ Drained(queue, unfinished)
  /\ queue' = queue \o SentinelsFor(Cardinality(Workers))
  /\ unfinished' = unfinished + Cardinality(Workers)
  /\ mainPc' = "gather"
  /\ UNCHANGED <<config, results, loaded, seeded, rows, wPc, wItem, wCall, cpPc, savePc,
                 files, writes, acks, raised, unitVars>>

\* gather returns; cp_task.cancel(); try: await cp_task
\* except asyncio.CancelledError: pass
MainStopCheckpointTask ==
  /\ mainPc = "gather"
  /\ savePc = "idle"
  /\ ~AnyWorkerNotDone(wPc)
  /\ \/ /\ cpPc \in {"new", "sleep"}
        /\ cpPc' = "cancelled"
        /\ mainPc' = "assemble"
     \/ /\ cpPc = "finished"
        /\ cpPc' = cpPc
        /\ mainPc' = "assemble"
     \/ /\ cpPc = "raised"
        /\ cpPc' = cpPc
        /\ mainPc' = "failed_await_cp"
  /\ UNCHANGED <<config, queue, unfinished, results, loaded, seeded, rows, wPc, wItem,
                 wCall, savePc, files, writes, acks, raised, unitVars>>

\* rows = [results.get(url, {"YC Link": url}) for url in links]
MainAssemble ==
  /\ mainPc = "assemble"
  /\ rows' = AssembleRows(links, results)
  /\ mainPc' = "write_csv"
  /\ UNCHANGED <<config, queue, unfinished, results, loaded, seeded, wPc, wItem, wCall,
                 cpPc, savePc, files, writes, acks, raised, unitVars>>

\* write_csv(output_path, rows)
MainWriteCsv ==
  /\ mainPc = "write_csv"
  /\ files' = [files EXCEPT ![OutputPath] = Complete(rows)]
  /\ mainPc' = "final_save"
  /\ UNCHANGED <<config, queue, unfinished, results, loaded, seeded, rows, wPc, wItem,
                 wCall, cpPc, savePc, writes, acks, raised, unitVars>>

\* write_csv raises (OSError while writing the output file)
WriteCsvFail ==
  /\ mainPc = "write_csv"
  /\ files' = [files EXCEPT ![OutputPath] = Partial]
  /\ mainPc' = "failed_write_csv"
  /\ UNCHANGED <<config, queue, unfinished, results, loaded, seeded, rows, wPc, wItem,
                 wCall, cpPc, savePc, writes, acks, raised, unitVars>>

(* --------------------------- save_checkpoint --------------------------- *)

\* with tmp.open("w") ...: the temporary file exists and is being written
SaveOpen(fs, path) == [fs EXCEPT ![TmpPath(path)] = Partial]

\* json.dump(data, f, ...) and the end of the with block
SaveDumped(fs, path, data) == [fs EXCEPT ![TmpPath(path)] = Complete(data)]

SaveNotReplaced(fs, path) == fs

\* tmp.replace(path)
SaveReplaced(fs, path) ==
  IF TmpPath(path) = path THEN fs
  ELSE [fs EXCEPT ![path] = fs[TmpPath(path)], ![TmpPath(path)] = Absent]

\* save_checkpoint(ckpt_path, results)  # final
MainFinalSave ==
  /\ mainPc = "final_save"
  /\ savePc = "idle"
  /\ files' = SaveOpen(files, CkptPath)
  /\ savePc' = "opened"
  /\ mainPc' = "saving"
  /\ UNCHANGED <<config, queue, unfinished, results, loaded, seeded, rows, wPc, wItem,
                 wCall, cpPc, writes, acks, raised, unitVars>>

SaveDump ==
  /\ savePc = "opened"
  /\ files' = SaveDumped(files, CkptPath, results)
  /\ savePc' = "written"
  /\ UNCHANGED <<config, mainPc, queue, unfinished, results, loaded, seeded, rows, wPc,
                 wItem, wCall, cpPc, writes, acks, raised, unitVars>>

\* tmp.replace(path), then the saver goes on: main is done, checkpoint_loop
\* evaluates its while condition again
SaveReplace ==
  /\ savePc = "written"
  /\ files' = SaveReplaced(files, CkptPath)
  /\ savePc' = "idle"
  /\ IF mainPc = "saving"
     THEN mainPc' = "done" /\ cpPc' = cpPc
     ELSE mainPc' = mainPc
          /\ cpPc' = IF AnyWorkerNotDone(wPc) THEN "sleep" ELSE "finished"
  /\ UNCHANGED <<config, queue, unfinished, results, loaded, seeded, rows, wPc, wItem,
                 wCall, writes, acks, raised, unitVars>>

\* the dump raises (OSError: disk full, ...): the exception leaves
\* save_checkpoint and ends the task that called it
SaveFail ==
  /\ savePc = "opened"
  /\ savePc' = "idle"
  /\ IF mainPc = "saving"
     THEN mainPc' = "failed_final_save" /\ cpPc' = cpPc
     ELSE mainPc' = mainPc /\ cpPc' = "raised"
  /\ UNCHANGED <<config, queue, unfinished, results, loaded, seeded, rows, wPc, wItem,
                 wCall, files, writes, acks, raised, unitVars>>

(* --------------------------- checkpoint_loop --------------------------- *)

\* main is suspended in an await, so that the tasks it created are run
MainSuspended ==
  \/ mainPc = "join" /\ ~Drained(queue, unfinished)
  \/ mainPc = "gather" /\ Workers # {}

\* first step of cp_task: while any(not w.done() ...): await asyncio.sleep(10).
\* The event loop runs the first steps in the order of create_task, the
\* workers' before this one: no worker is still to take an item it can take.
CpStart ==
  /\ MainSuspended
  /\ savePc = "idle"
  /\ cpPc = "new"
  /\ \A w \in Workers : wPc[w] = "get" => queue = << >>
  /\ cpPc' = IF AnyWorkerNotDone(wPc) THEN "sleep" ELSE "finished"
  /\ UNCHANGED <<config, mainPc, queue, unfinished, results, loaded, seeded, rows, wPc,
                 wItem, wCall, savePc, files, writes, acks, raised, unitVars>>

ResultsTruthyAlways(res) == TRUE

\* if results:
ResultsTruthy(res) == DOMAIN res # {}

\* the sleep ends: if results: save_checkpoint(ckpt_path, results)
CpWake ==
  /\ Running
  /\ savePc = "idle"
  /\ cpPc = "sleep"
  /\ IF ResultsTruthy(results)
     THEN /\ files' = SaveOpen(files, CkptPath)
          /\ savePc' = "opened"
          /\ cpPc' = "saving"
     ELSE /\ files' = files
          /\ savePc' = savePc
          /\ cpPc' = IF AnyWorkerNotDone(wPc) THEN "sleep" ELSE "finished"
  /\ UNCHANGED <<config, mainPc, queue, unfinished, results, loaded, seeded, rows, wPc,
                 wItem, wCall, writes, acks, raised, unitVars>>

(* ------------------------------- worker -------------------------------- *)

\* the key under which worker() stores what scrape_one returned
ResultKey(item) == item[2]

PcAfterProcessingNoFinally(exc) == IF exc THEN "get" ELSE "pace"

\* finally: await asyncio.sleep(delay + random.uniform(0, 0.25)), reached
\* from the try body and from the except branch alike
PcAfterProcessing(exc) == "pace"

\* queue.task_done(): one unfinished task less
TaskDone(unf) == unf - 1

\* one more task_done() on record for the item
Acknowledged(a, item) ==
  DictSet(a, item, IF item \in DOMAIN a THEN a[item] + 1 ELSE 1)

\* results[url] = data
StoreResult(res, item, data) == DictSet(res, ResultKey(item), data)

\* item = await queue.get(); the sentinel: queue.task_done(); return;
\* a work item: idx, url = item, enter scrape_one up to its first fetch
WorkerGet(w) ==
  /\ Running
  /\ savePc = "idle"
  /\ wPc[w] = "get"
  /\ queue # << >>
  /\ queue' = Tail(queue)
  /\ IF Head(queue) = Sentinel
     THEN /\ unfinished' = TaskDone(unfinished)
          /\ acks' = Acknowledged(acks, Head(queue))
          /\ wPc' = [wPc EXCEPT ![w] = "done"]
          /\ UNCHANGED <<wItem, wCall>>
     ELSE /\ unfinished' = unfinished
          /\ acks' = acks
          /\ wPc' = [wPc EXCEPT ![w] = "scrape"]
          /\ wItem' = [wItem EXCEPT ![w] = Head(queue)]
          /\ wCall' = [wCall EXCEPT ![w] = ScrapeCall(Head(queue)[2], DefaultRetries)]
  /\ UNCHANGED <<config, mainPc, results, loaded, seeded, rows, cpPc, savePc, files,
                 writes, raised, unitVars>>

\* (a fetch or a sleep completes in a later iteration of the event loop
\* than the one that runs the first step of every task main created, so
\* cp_task has started by then: cpPc # "new")

\* fetch() returns inside scrape_one: next backoff sleep, or scrape_one
\* returns and results[url] = data, or it raises and the except branch
\* prints; in both cases the finally block reaches its pacing sleep
WorkerFetchReturn(w) ==
  /\ Running
  /\ savePc = "idle"
  /\ cpPc # "new"
  /\ wPc[w] = "scrape"
  /\ wCall[w].pc = "fetch"
  /\ \E html \in FetchOutcomes :
       LET c == ScrapeOnFetch(wCall[w], html)
       IN \/ /\ c.pc = "backoff"
             /\ wCall' = [wCall EXCEPT ![w] = c]
             /\ UNCHANGED <<wPc, results, writes, raised>>
          \/ /\ c.pc = "returned"
             /\ results' = StoreResult(results, wItem[w], c.result)
             /\ writes' = [writes EXCEPT ![ResultKey(wItem[w])] = @ + 1]
             /\ wPc' = [wPc EXCEPT ![w] = PcAfterProcessing(FALSE)]
             /\ wCall' = [wCall EXCEPT ![w] = IdleCall]
             /\ raised' = raised
          \/ /\ c.pc = "raised"
             /\ wPc' = [wPc EXCEPT ![w] = PcAfterProcessing(TRUE)]
             /\ wCall' = [wCall EXCEPT ![w] = IdleCall]
             /\ raised' = raised \cup {wItem[w]}
             /\ UNCHANGED <<results, writes>>
  /\ UNCHANGED <<config, mainPc, queue, unfinished, loaded, seeded, rows, wItem, cpPc,
                 savePc, files, acks, unitVars>>

\* await asyncio.sleep(sleep_s) in scrape_one ends
WorkerBackoffWake(w) ==
  /\ Running
  /\ savePc = "idle"
  /\ cpPc # "new"
  /\ wPc[w] = "scrape"
  /\ wCall[w].pc = "backoff"
  /\ wCall' = [wCall EXCEPT ![w] = ScrapeOnWake(@)]
  /\ UNCHANGED <<config, mainPc, queue, unfinished, results, loaded, seeded, rows, wPc,
                 wItem, cpPc, savePc, files, writes, acks, raised, unitVars>>

\* the pacing sleep of the finally block ends: queue.task_done(), loop
WorkerPaceWake(w) ==
  /\ Running
  /\ savePc = "idle"
  /\ cpPc # "new"
  /\ wPc[w] = "pace"
  /\ unfinished' = TaskDone(unfinished)
  /\ acks' = Acknowledged(acks, wItem[w])
  /\ wPc' = [wPc EXCEPT ![w] = "get"]
  /\ wItem' = [wItem EXCEPT ![w] = NoItem]
  /\ UNCHANGED <<config, mainPc, queue, results, loaded, seeded, rows, wCall, cpPc,
                 savePc, files, writes, raised, unitVars>>

(* ---------------------------- environment ------------------------------ *)

\* the process is killed: its memory is gone, the files stay as they are
Kill ==
  /\ mainPc \in {"load", "start", "join", "gather", "assemble", "write_csv",
                 "final_save", "saving"}
  /\ mainPc' = "killed"
  /\ queue' = << >>
  /\ unfinished' = 0
  /\ results' = EmptyDict
  /\ loaded' = EmptyDict
  /\ seeded' = << >>
  /\ rows' = << >>
  /\ wPc' = << >>
  /\ wItem' = << >>
  /\ wCall' = << >>
  /\ cpPc' = "none"
  /\ savePc' = "idle"
  /\ writes' = [u \in URLs |-> 0]
  /\ acks' = EmptyDict
  /\ raised' = {}
  /\ UNCHANGED <<config, files, unitVars>>

(* --------------------------- specifications ---------------------------- *)

MainStep ==
  \/ MainLoadLinks
  \/ MainResumeFail
  \/ MainSetup
  \/ MainJoinReturn
  \/ MainStopCheckpointTask
  \/ MainAssemble
  \/ MainWriteCsv
  \/ MainFinalSave

SaveStep == SaveDump \/ SaveReplace

CpStep == CpStart \/ CpWake

WorkerStep(w) ==
  \/ WorkerGet(w)
  \/ WorkerFetchReturn(w)
  \/ WorkerBackoffWake(w)
  \/ WorkerPaceWake(w)

Next ==
  \/ MainLoadLinks
  \/ MainResumeFail
  \/ MainSetup
  \/ MainJoinReturn
  \/ MainStopCheckpointTask
  \/ MainAssemble
  \/ MainWriteCsv
  \/ MainFinalSave
  \/ SaveDump
  \/ SaveReplace
  \/ CpStart
  \/ CpWake
  \/ \E w \in Workers : WorkerGet(w)
  \/ \E w \in Workers : WorkerFetchReturn(w)
  \/ \E w \in Workers : WorkerBackoffWake(w)
  \/ \E w \in Workers : WorkerPaceWake(w)
  \/ WriteCsvFail
  \/ SaveFail
  \/ Kill

Spec == Init /\ [][Next]_vars

\* the run with a healthy disk and no kill, under the event loop's fairness:
\* every fetch and every sleep returns and every ready task is run. A task
\* cannot step while a synchronous save_checkpoint is in progress, but the
\* checkpoint task sleeps between two saves, so a task that is ready again
\* and again does run: strong fairness for main and the workers.
LiveNext ==
  \/ MainStep
  \/ SaveStep
  \/ CpStep
  \/ \E w \in Workers : WorkerStep(w)

LiveSpec ==
  /\ Init
  /\ [][LiveNext]_vars
  /\ SF_vars(MainStep)
  /\ WF_vars(SaveStep)
  /\ WF_vars(CpStep)
  /\ \A w \in 0..MaxConcurrency : SF_vars(w \in Workers /\ WorkerStep(w))

(* ------------------------ scrape_one taken alone ----------------------- *)

pipelineVars ==
  <<links, concurrency, resume, mainPc, queue, unfinished, results, loaded,
    seeded, rows, wPc, wItem, wCall, cpPc, savePc, files, writes, acks, raised>>

\* no run of main: nothing loaded, no task, no file
PipelineIdle ==
  /\ links = << >>
  /\ concurrency = 0
  /\ resume = FALSE
  /\ mainPc = "none"
  /\ queue = << >>
  /\ unfinished = 0
  /\ results = EmptyDict
  /\ loaded = EmptyDict
  /\ seeded = << >>
  /\ rows = << >>
  /\ wPc = << >>
  /\ wItem = << >>
  /\ wCall = << >>
  /\ cpPc = "none"
  /\ savePc = "idle"
  /\ files = [p \in Paths |-> Absent]
  /\ writes = [u \in URLs |-> 0]
  /\ acks = EmptyDict
  /\ raised = {}

\* --rpm values explored: 0 (max(1, rpm) = 1), 60 and the default
Rpms == {0, 60, DefaultRpm}

\* random.uniform(0, 0.5), in milliseconds: both ends and the middle
Jitters == {0, 250, 500}

\* delay = 60.0 / max(1, rpm), in milliseconds (exact for the Rpms explored)
Delay(r) == 60000 \div (IF r > 1 THEN r ELSE 1)

BackoffSleepLinear(delay, attempt, jitter) == delay * attempt + jitter

\* sleep_s = delay * (2 ** (attempt - 1)) + random.uniform(0, 0.5)
BackoffSleep(delay, attempt, jitter) == delay * 2^(attempt - 1) + jitter

ScrapeInit ==
  /\ call \in {ScrapeCall(u, r) : u \in URLs, r \in 0..MaxRetries}
  /\ prevCall = IdleCall
  /\ rpm \in Rpms
  /\ fetched = NoContent
  /\ slept = NoSleep
  /\ PipelineIdle
  /\ ExtractIdle
  /\ JoinIdle

\* html = await fetch(client, url) returns: scrape_one returns or raises, or
\* computes sleep_s and suspends in asyncio.sleep(sleep_s)
ScrapeFetchReturn ==
  /\ call.pc = "fetch"
  /\ \E html \in FetchOutcomes, jitter \in Jitters :
       LET c == ScrapeOnFetch(call, html)
       IN /\ call' = c
          /\ fetched' = html
          /\ slept' = IF c.pc = "backoff"
                      THEN [k |-> call.attempt,
                            ms |-> BackoffSleep(Delay(rpm), call.attempt, jitter),
                            jitter |-> jitter,
                            prev |-> slept.ms - slept.jitter]
                      ELSE slept
  /\ UNCHANGED <<prevCall, rpm, pipelineVars, extractVars, joinVars>>

\* await asyncio.sleep(sleep_s) returns
ScrapeBackoffWake ==
  /\ call.pc = "backoff"
  /\ call' = ScrapeOnWake(call)
  /\ UNCHANGED <<prevCall, rpm, fetched, slept, pipelineVars, extractVars, joinVars>>

\* the same target is scraped once more (a second run)
ScrapeAgain ==
  /\ call.pc \in {"returned", "raised"}
  /\ prevCall = IdleCall
  /\ prevCall' = call
  /\ call' = ScrapeCall(call.url, call.retries)
  /\ fetched' = NoContent
  /\ slept' = NoSleep
  /\ UNCHANGED <<rpm, pipelineVars, extractVars, joinVars>>

ScrapeNext == ScrapeFetchReturn \/ ScrapeBackoffWake \/ ScrapeAgain

ScrapeSpec == ScrapeInit /\ [][ScrapeNext]_vars

(* ----------------- the extraction path taken alone --------------------- *)

\* what the two extractions can put under a key. status, primary_partner,
\* batch and location take any JSON value found under one of their
\* spellings ({"label": 0, "text": {}} leaves {}); the years and sizes go
\* through norm_int; website is set for a non-empty str only; the founder
\* lists are set when non-empty
LabelKeys == {"status", "primary_partner", "batch", "location"}
IntKeys == {"founded_year", "team_size"}

StructValuesOf(k) ==
  IF k \in LabelKeys
  THEN {PyNone, PyStr(<< >>), PyList(<< >>), PyDict(<< >>), PyInt(0),
        PyStr(<<"a">>)}
  ELSE IF k \in IntKeys THEN {PyNone, PyInt(0), PyInt(7)}
  ELSE IF k = "website" THEN {PyStr(<<"w">>)}
  ELSE {PyList(<<(<<"a">>), (<<" ", "a">>), (<<"b">>)>>)}

\* get_text(strip=True) gives a str, possibly empty; `founders or None`
FbValuesOf(k) ==
  IF k \in LabelKeys THEN {PyNone, PyStr(<< >>), PyStr(<<"b">>)}
  ELSE IF k \in IntKeys THEN {PyNone, PyInt(0), PyInt(9)}
  ELSE IF k = "website" THEN {PyStr(<<"v">>)}
  ELSE {PyNone, PyList(<<(<<"c">>), (<<"c">>), (<<"d", " ">>)>>)}

\* the dicts explored: no usable __NEXT_DATA__ (an empty dict), every label
\* unmatched, and one key holding one of its values
StructBase == [k \in StructAlways |-> PyNone]
FbBase == [k \in FbAlways |-> PyNone]

StructuredOutputs ==
  {EmptyDict, StructBase} \cup
  UNION {{DictSet(StructBase, k, v) : v \in StructValuesOf(k)} :
           k \in StructAlways \cup StructOptional}

FallbackOutputs ==
  {FbBase} \cup
  UNION {{DictSet(FbBase, k, v) : v \in FbValuesOf(k)} :
           k \in FbAlways \cup FbOptional}

\* out = extract_from_next_data(html); fb = parse_html_fallback(html)
ExtractInit ==
  /\ nextData \in StructuredOutputs
  /\ fb \in FallbackOutputs
  /\ out = nextData
  /\ mapped = EmptyDict
  /\ xPc = "parsed"
  /\ PipelineIdle
  /\ ScrapeIdle
  /\ JoinIdle

\* out = merge_preferring_left(out, fb)
ExtractMerge ==
  /\ xPc = "parsed"
  /\ out' = MergePreferringLeft(out, fb)
  /\ xPc' = "merged"
  /\ UNCHANGED <<nextData, fb, mapped, pipelineVars, scrapeVars, joinVars>>

\* Normalize lists to strings
ExtractNormalize ==
  /\ xPc = "merged"
  /\ out' = NormalizeLists(out)
  /\ xPc' = "normalized"
  /\ UNCHANGED <<nextData, fb, mapped, pipelineVars, scrapeVars, joinVars>>

\* Map to output keys; return mapped
ExtractMap ==
  /\ xPc = "normalized"
  /\ \E u \in URLs : mapped' = MapToOutputKeys(u, out)
  /\ xPc' = "mapped"
  /\ UNCHANGED <<nextData, fb, out, pipelineVars, scrapeVars, joinVars>>

ExtractNext == ExtractMerge \/ ExtractNormalize \/ ExtractMap

ExtractSpec == ExtractInit /\ [][ExtractNext]_vars

(* ----------------------- as_semicolon taken alone ---------------------- *)

\* the strings explored: empty, whitespace only, plain, padded, and one
\* with inner whitespace
Strings ==
  {<< >>, <<" ">>, <<"a">>, <<" ", "a", " ">>, <<"b">>, <<"a", " ", "b">>}

ValueLists == UNION {[1..n -> Strings] : n \in 0..MaxValues}

JoinInit ==
  /\ values \in ValueLists
  /\ joined = PyNone
  /\ PipelineIdle
  /\ ScrapeIdle
  /\ ExtractIdle

\* as_semicolon(values) is called and returns
JoinCall ==
  /\ joined = PyNone
  /\ joined' = PyStr(AsSemicolon(values))
  /\ UNCHANGED <<values, pipelineVars, scrapeVars, extractVars>>

\* the cleaned list is handed to as_semicolon again
JoinAgain ==
  /\ joined # PyNone
  /\ values # FromKeys(Cleaned(values))
  /\ values' = FromKeys(Cleaned(values))
  /\ joined' = PyNone
  /\ UNCHANGED <<pipelineVars, scrapeVars, extractVars>>

JoinNext == JoinCall \/ JoinAgain

JoinSpec == JoinInit /\ [][JoinNext]_vars

(* ------------------------------ claims --------------------------------- *)

Range(f) == {f[x] : x \in DOMAIN f}

Assembled ==
  mainPc \in {"write_csv", "final_save", "saving", "done",
              "failed_write_csv", "failed_final_save"}

\* main has created its tasks
InRun ==
  mainPc \notin {"load", "start", "killed", "none", "failed_load_links",
                 "failed_resume"}

InInputOrder(rs) ==
  /\ Len(rs) = Len(links)
  /\ \A i \in 1..Len(links) :
       "YC Link" \in DOMAIN rs[i] /\ rs[i]["YC Link"] = links[i]

\* C1: once main has built its row list, the list is as long as the input
\* list and its i-th row carries the identifier of the i-th input target;
\* the output file, once written, holds such a list.
OneRowPerTargetInOrder ==
  /\ Assembled => InInputOrder(rows)
  /\ files[OutputPath].kind = "complete" => InInputOrder(files[OutputPath].data)

\* a resumed run over two distinct targets, the first taken from the
\* checkpoint, the second ending as a placeholder after its fetches failed
OneRowPerTargetWitness ==
  /\ mainPc = "done"
  /\ resume
  /\ links = <<"u2", "u1">>
  /\ DOMAIN loaded = {"u2"}
  /\ rows[2] = Placeholder("u1")
  /\ files[OutputPath] = Complete(rows)

\* a list with a repeated URL: two rows for it
RepeatedUrlRowsWitness ==
  /\ mainPc = "done"
  /\ links = <<"u1", "u1">>
  /\ Len(rows) = 2

\* C2: in a resumed run no key of the loaded checkpoint is put on the queue,
\* held by a worker or assigned in the Result Set, its value stays the
\* checkpointed one up to the output row, and exactly the targets that are
\* not in the checkpoint are seeded.
ResumedTargetsKept ==
  (InRun /\ resume) =>
    /\ (mainPc = "join" /\ cpPc = "new") => loaded = LoadCheckpoint(files[CkptPath])
    /\ \A u \in DOMAIN loaded :
         /\ \A k \in 1..Len(queue) : queue[k][2] # u
         /\ \A w \in DOMAIN wItem : wItem[w][2] # u
         /\ writes[u] = 0
         /\ u \in DOMAIN results /\ results[u] = loaded[u]
    /\ Assembled =>
         \A i \in 1..Len(links) :
           links[i] \in DOMAIN loaded => rows[i] = loaded[links[i]]
    /\ \A i \in 1..Len(links) :
         links[i] \notin DOMAIN loaded =>
           \E k \in 1..Len(seeded) : seeded[k] = <<i - 1, links[i]>>
    /\ \A k \in 1..Len(seeded) : seeded[k][2] \notin DOMAIN loaded

\* the checkpoint holds a placeholder for u1; u1 is not fetched again and
\* its row is that placeholder, while u2 was scraped
ResumedTargetsKeptWitness ==
  /\ mainPc = "done"
  /\ resume
  /\ links = <<"u1", "u2">>
  /\ DOMAIN loaded = {"u1"}
  /\ loaded["u1"] = Placeholder("u1")
  /\ rows[1] = Placeholder("u1")
  /\ rows[2] = MappedRow("u2", "p1")
  /\ writes["u1"] = 0

AllFailed(c) == c.pc = "returned" /\ c.failed = c.fetches

\* C3: a call of scrape_one whose every fetch failed made exactly
\* retries + 1 fetches and returned the mapping holding only the target
\* identifier; no call makes more fetches than that; a repeated call that
\* fails throughout returns the same placeholder.
AlwaysFailingGivesPlaceholder ==
  /\ call.fetches <= call.retries + 1
  /\ AllFailed(call) =>
       /\ call.fetches = call.retries + 1
       /\ DOMAIN call.result = {"YC Link"}
       /\ call.result["YC Link"] = call.url
       /\ AllFailed(prevCall) => call.result = prevCall.result

\* the default retries = 4: five failed fetches, twice
AlwaysFailingWitness ==
  /\ AllFailed(call)
  /\ AllFailed(prevCall)
  /\ call.retries = DefaultRetries
  /\ call.fetches = 5
  /\ prevCall.fetches = 5

\* C4: every key of the Result Set is assigned at most once in a run (so by
\* at most one worker), and a key loaded from the checkpoint is never
\* assigned.
EachKeyWrittenOnce ==
  \A u \in URLs :
    /\ writes[u] <= 1
    /\ u \in DOMAIN loaded => writes[u] = 0

\* C5 as stated: the keys of the Result Set are identifiers of this run's
\* input list.
ResultKeysWithinLinks == DOMAIN results \subseteq Range(links)

\* C5, amended: the keys of the Result Set are identifiers of this run's
\* input list or keys of the checkpoint loaded at startup; without --resume
\* they are identifiers of the input list.
ResultKeysWithinLinksOrLoaded ==
  /\ DOMAIN results \subseteq Range(links) \cup DOMAIN loaded
  /\ (DOMAIN results) \ (DOMAIN loaded) \subseteq Range(links)
  /\ ~resume => DOMAIN results \subseteq Range(links)

\* a resumed run whose checkpoint holds u2, not a target of this run, and
\* whose worker has stored u1
ResultKeysWitness ==
  /\ resume
  /\ links = <<"u1">>
  /\ DOMAIN loaded = {"u2"}
  /\ DOMAIN results = {"u1", "u2"}
  /\ writes["u1"] = 1

\* C6: the destination checkpoint file never holds part of a dump, and it
\* changes only in the replace step of a save, to the complete content of
\* the temporary sibling file.
CheckpointReplacedAtomically ==
  /\ [](files[CkptPath].kind # "partial")
  /\ [][files'[CkptPath] # files[CkptPath] =>
          /\ savePc = "written"
          /\ TmpPath(CkptPath) # CkptPath
          /\ files[TmpPath(CkptPath)].kind = "complete"
          /\ files'[CkptPath] = files[TmpPath(CkptPath)]]_vars

\* the process was killed in the middle of a dump: the temporary file holds
\* part of it, the destination still holds the previous complete snapshot
KilledMidSaveWitness ==
  /\ mainPc = "killed"
  /\ files[TmpPath(CkptPath)].kind = "partial"
  /\ files[CkptPath].kind = "complete"
  /\ DOMAIN files[CkptPath].data # {}

\* C7: the run terminates: main reaches the end, the output file and the
\* final checkpoint written.
RunTerminates == <>(mainPc = "done")

\* with at least one worker the run does terminate
RunTerminatesWithWorkers == (mainPc = "join" /\ concurrency >= 1) ~> (mainPc = "done")

NumSentinels(q) == Cardinality({k \in 1..Len(q) : q[k] = Sentinel})

DoneWorkers == {w \in DOMAIN wPc : wPc[w] = "done"}

\* C8: no sentinel exists before the drain wait has returned; from then on
\* the sentinels in the queue and the workers that have exited add up to
\* the number of workers, no work item is queued or in progress, the
\* unfinished count is the number of sentinels still queued, and once all
\* workers have exited the queue is empty.
SentinelProtocol ==
  InRun =>
    /\ mainPc = "join" => NumSentinels(queue) = 0 /\ DoneWorkers = {}
    /\ mainPc # "join" =>
         /\ NumSentinels(queue) + Cardinality(DoneWorkers) = Cardinality(Workers)
         /\ \A k \in 1..Len(queue) : queue[k] = Sentinel
         /\ \A w \in DOMAIN wPc : wPc[w] \in {"get", "done"} /\ wItem[w] = NoItem
         /\ unfinished = NumSentinels(queue)
         /\ ~AnyWorkerNotDone(wPc) => queue = << >>

\* two workers, two seeded items processed; one worker has taken its
\* sentinel and exited, the other sentinel is still queued
SentinelProtocolWitness ==
  /\ mainPc = "gather"
  /\ concurrency = 2
  /\ Len(seeded) = 2
  /\ Cardinality(DoneWorkers) = 1
  /\ NumSentinels(queue) = 1

\* C9: the final checkpoint save comes after the checkpoint task is stopped
\* and before the output file is written: while the final save is still to
\* be done or in progress, no output file exists.
FinalSaveBeforeOutput ==
  mainPc \in {"final_save", "saving"} =>
    /\ cpPc \in {"cancelled", "finished"}
    /\ files[OutputPath].kind = "absent"

\* C10: stopping the checkpoint task never raises to main.
StoppingCheckpointTaskNeverRaises == mainPc # "failed_await_cp"

\* not null, not the empty string, not the empty list, not the empty mapping
NonEmptyValue(v) ==
  /\ v.t # "None"
  /\ v.t = "str" => v.s # << >>
  /\ v.t = "list" => v.l # << >>
  /\ v.t = "dict" => DOMAIN v.d # {}

Merged == xPc \in {"merged", "normalized", "mapped"}

\* C11: after the merge, every key for which the structured mapping holds a
\* non-empty value carries exactly that value, whatever the fallback
\* mapping holds for the key.
StructuredValueWins ==
  Merged =>
    \A k \in DOMAIN nextData :
      NonEmptyValue(nextData[k]) => k \in DOMAIN out /\ out[k] = nextData[k]

\* the structured year is 0 (non-empty), the fallback year is 9: 0 is kept
StructuredValueWinsWitness ==
  /\ xPc = "merged"
  /\ "founded_year" \in DOMAIN nextData
  /\ nextData["founded_year"] = PyInt(0)
  /\ fb["founded_year"] = PyInt(9)
  /\ out["founded_year"] = PyInt(0)

\* the key under which each extraction files a logical output field
StructuredKey ==
  [c \in OutputKeys \ {"YC Link"} |->
     CASE c = "Website" -> "website"
       [] c = "Status" -> "status"
       [] c = "Primary Partner" -> "primary_partner"
       [] c = "Founded Year" -> "founded_year"
       [] c = "Team Size" -> "team_size"
       [] c = "Batch" -> "batch"
       [] c = "Location" -> "location"
       [] c = "Active Founders" -> "active_founders"
       [] c = "Founders LinkedIn Link" -> "founders_linkedin"]

FallbackKey ==
  [c \in OutputKeys \ {"YC Link"} |->
     IF c = "Active Founders" THEN "founders" ELSE StructuredKey[c]]

\* a list-valued field appears in the Field Mapping as its display string
Displayed(v) == IF v.t = "list" THEN PyStr(AsSemicolon(v.l)) ELSE v

StructuredIsEmpty(c) ==
  StructuredKey[c] \in DOMAIN nextData => ~NonEmptyValue(nextData[StructuredKey[c]])

FallbackReaches(c) ==
  StructuredIsEmpty(c) => mapped[c] = Displayed(DictGet(fb, FallbackKey[c]))

\* C12: in the mapping scrape_one returns, every output field whose
\* structured value is empty or absent holds the value the fallback
\* extraction produced for that field (a list as its display string).
FallbackValueReachesMapping ==
  xPc = "mapped" => \A c \in OutputKeys \ {"YC Link"} : FallbackReaches(c)

\* every field but the active founders does get the fallback's value
FallbackValueReachesOtherFields ==
  xPc = "mapped" =>
    \A c \in OutputKeys \ {"YC Link", "Active Founders"} : FallbackReaches(c)

\* the fallback's founders' links reach the mapping when the structured
\* extraction found none
FallbackLinksReachWitness ==
  /\ xPc = "mapped"
  /\ "founders_linkedin" \notin DOMAIN nextData
  /\ fb["founders_linkedin"].t = "list"
  /\ mapped["Founders LinkedIn Link"] = PyStr(<<"c", ";", " ", "d">>)

\* t is s without its leading and trailing whitespace
IsTrimOf(t, s) ==
  \E i, j \in 0..Len(s) :
    /\ i + j <= Len(s)
    /\ t = SubSeq(s, i + 1, Len(s) - j)
    /\ \A n \in 1..i : s[n] = " "
    /\ \A n \in (Len(s) - j + 1)..Len(s) : s[n] = " "
    /\ t # << >> => t[1] # " " /\ t[Len(t)] # " "

Trimmed(s) == CHOOSE t \in {SubSeq(s, a, b) : a \in 1..(Len(s) + 1), b \in 0..Len(s)} :
                IsTrimOf(t, s)

\* the positions of values that hold the first occurrence of a non-empty
\* trimmed element
FirstSeen(vs) ==
  {i \in 1..Len(vs) :
     /\ Trimmed(vs[i]) # << >>
     /\ \A j \in 1..(i - 1) : Trimmed(vs[j]) # Trimmed(vs[i])}

RECURSIVE JoinedUpTo(_, _)
\* the display string of the elements at the first-seen positions <= n
JoinedUpTo(vs, n) ==
  IF n = 0 THEN << >>
  ELSE IF n \notin FirstSeen(vs) THEN JoinedUpTo(vs, n - 1)
  ELSE IF \E m \in FirstSeen(vs) : m < n
       THEN JoinedUpTo(vs, n - 1) \o <<";", " ">> \o Trimmed(vs[n])
       ELSE Trimmed(vs[n])

\* C13: as_semicolon returns the trimmed elements of its argument, the
\* empty and whitespace-only ones dropped, each kept at its first occurrence
\* only and in that order, joined with "; "; ["a", "", "a", "b"] gives
\* "a; b"; cleaning the cleaned list again changes nothing.
SemicolonJoinCleansAndDedupes ==
  /\ joined # PyNone =>
       /\ joined = PyStr(JoinedUpTo(values, Len(values)))
       /\ values = <<(<<"a">>), << >>, (<<"a">>), (<<"b">>)>> =>
            joined = PyStr(<<"a", ";", " ", "b">>)
  /\ \A i \in 1..Len(values) : IsTrimOf(Strip(values[i]), values[i])
  /\ LET c == FromKeys(Cleaned(values))
     IN /\ FromKeys(Cleaned(c)) = c
        /\ AsSemicolon(c) = AsSemicolon(values)

\* a padded duplicate after an empty element: [" a ", "", "a", "b"]
SemicolonJoinWitness ==
  /\ values = <<(<<" ", "a", " ">>), << >>, (<<"a">>), (<<"b">>)>>
  /\ joined = PyStr(<<"a", ";", " ", "b">>)

\* fetch() returns r.text exactly when the status code is 200
Answered200(html) == html # NoContent

\* C16: once a fetch of the call was answered with HTTP 200, the call has
\* returned the ten-key Field Mapping (the retry loop is over: no backoff
\* sleep, no further fetch), whatever the body.
First200EndsRetryLoop ==
  (call.pc # "idle" /\ Answered200(fetched)) =>
    /\ call.pc = "returned"
    /\ DOMAIN call.result = OutputKeys

\* a 200 answer with a page that extracts does end the loop at once
First200WithContentWitness ==
  /\ fetched \in GoodPages
  /\ call.pc = "returned"
  /\ call.fetches = 3
  /\ call.retries = DefaultRetries
  /\ DOMAIN call.result = OutputKeys

\* the sleeps the call has made or is making
SleepsDue(c) == IF c.pc = "backoff" THEN c.attempt ELSE c.attempt - 1

\* C17: the k-th failed attempt is followed by a sleep of
\* delay * 2^(k-1) plus a jitter in [0, 0.5] s, twice the deterministic
\* part of the sleep before it; attempts 1..R of an always-failing call
\* with retry count R are each followed by a sleep and attempt R+1 by none.
BackoffDoublesWithJitter ==
  /\ call.pc \in {"fetch", "backoff"} => call.sleeps = SleepsDue(call)
  /\ call.pc = "backoff" => slept.k = call.attempt /\ call.failed = call.attempt
  /\ slept.k >= 1 =>
       /\ slept.jitter \in 0..500
       /\ slept.ms - slept.jitter = Delay(rpm) * 2^(slept.k - 1)
       /\ slept.k >= 2 => slept.ms - slept.jitter = 2 * slept.prev
  /\ call.sleeps <= call.retries
  /\ AllFailed(call) => call.sleeps = call.retries /\ slept.k = call.retries

\* the default rpm and retries: the fourth sleep is 0.5 * 8 + 0.5 s, and the
\* fifth failure is followed by no sleep
BackoffWitness ==
  /\ AllFailed(call)
  /\ rpm = DefaultRpm
  /\ call.retries = DefaultRetries
  /\ call.sleeps = 4
  /\ slept = [k |-> 4, ms |-> 4500, jitter |-> 500, prev |-> 2000]

\* C14 as stated: loading the checkpoint never fails the run, and a run
\* resumed over a checkpoint path that holds no usable checkpoint starts
\* from the empty Result Set with every target seeded.
UnusableCheckpointIsNoCheckpoint ==
  /\ mainPc # "failed_resume"
  /\ (resume /\ mainPc = "join" /\ cpPc = "new"
        /\ files[CkptPath].kind # "complete") =>
       /\ results = EmptyDict
       /\ Len(seeded) = Len(links)

\* a missing, unreadable or unparseable checkpoint does leave the run
\* starting from scratch
UnparseableCheckpointIsNoCheckpoint ==
  (resume /\ mainPc = "join" /\ cpPc = "new"
     /\ files[CkptPath].kind \in {"absent", "garbage", "unreadable"}) =>
    /\ results = EmptyDict
    /\ Len(seeded) = Len(links)

UnparseableCheckpointWitness ==
  /\ resume
  /\ mainPc = "join"
  /\ cpPc = "new"
  /\ files[CkptPath] = Garbage
  /\ seeded = <<(<<0, "u1">>)>>

\* C15: with an input file whose header lacks the link column the run
\* fails in load_links: no target is loaded, nothing is enqueued, no worker
\* or checkpoint task exists, nothing is fetched or stored, and no output,
\* temporary or checkpoint file is written.
MissingColumnFailsBeforeWork ==
  "YC Link" \notin files[InputPath].data.fieldnames =>
    /\ mainPc \in {"load", "failed_load_links", "killed"}
    /\ links = << >>
    /\ queue = << >> /\ seeded = << >> /\ unfinished = 0
    /\ wPc = << >> /\ wCall = << >>
    /\ cpPc = "none" /\ savePc = "idle"
    /\ results = EmptyDict /\ \A u \in URLs : writes[u] = 0
    /\ files[OutputPath] = Absent
    /\ files[TmpPath(CkptPath)] = Absent
    /\ files[CkptPath] \in PriorCheckpoints(resume)

MissingColumnWitness ==
  /\ mainPc = "failed_load_links"
  /\ files[InputPath].data.fieldnames = {"Name"}
  /\ concurrency = 2
  /\ resume
  /\ files[CkptPath].kind = "complete"

Holding(pc) == pc \in {"scrape", "pace"}

\* C18: a worker holds an item exactly while it processes it or paces, and
\* the unfinished count covers the queued and the held items; a worker
\* leaves "get" with the head of the queue (a work item, which it keeps
\* unacknowledged, or the sentinel, which it acknowledges at once before it
\* exits), leaves processing only for the pacing sleep, whether scrape_one
\* returned (the result is stored under the item's key) or raised (nothing
\* is stored), and acknowledges the item and goes back to "get" only when
\* the pacing sleep ends.
WorkerCycle ==
  /\ [](\A w \in DOMAIN wPc :
          /\ Holding(wPc[w]) <=> wItem[w] # NoItem
          /\ wItem[w] # Sentinel
          /\ wPc[w] = "scrape" <=> wCall[w].pc # "idle")
  /\ [](InRun =>
          unfinished = Len(queue)
                       + Cardinality({w \in DOMAIN wPc : Holding(wPc[w])}))
  /\ [][\A w \in (DOMAIN wPc) \cap (DOMAIN wPc') :
          /\ (wPc[w] = "get" /\ wPc'[w] # "get") =>
               /\ queue # << >> /\ queue' = Tail(queue)
               /\ IF Head(queue) = Sentinel
                  THEN wPc'[w] = "done" /\ unfinished' = unfinished - 1
                  ELSE /\ wPc'[w] = "scrape"
                       /\ wItem'[w] = Head(queue)
                       /\ unfinished' = unfinished
          /\ (wPc[w] = "scrape" /\ wPc'[w] # "scrape") =>
               /\ wPc'[w] = "pace"
               /\ wItem'[w] = wItem[w]
               /\ unfinished' = unfinished /\ queue' = queue
               /\ \/ results' = results
                  \/ /\ wItem[w][2] \in DOMAIN results'
                     /\ writes'[wItem[w][2]] = writes[wItem[w][2]] + 1
          /\ (wPc[w] = "pace" /\ wPc'[w] # "pace") =>
               /\ wPc'[w] = "get"
               /\ wItem'[w] = NoItem
               /\ unfinished' = unfinished - 1 /\ queue' = queue
          /\ wPc[w] = "done" => wPc'[w] = "done"
          /\ (wPc'[w] = wPc[w] /\ Holding(wPc[w])) => wItem'[w] = wItem[w]]_vars

\* a worker paces after a processing that raised: the item is held and
\* unacknowledged, and nothing was stored for it
WorkerCycleWitness ==
  /\ mainPc = "join"
  /\ concurrency = 1
  /\ links = <<"u1", "u2">>
  /\ wPc[0] = "pace"
  /\ wItem[0] = <<0, "u1">>
  /\ results = EmptyDict
  /\ unfinished = 2
  /\ queue = <<(<<1, "u2">>)>>

\* C19: the checkpoint task starts a save only when its interval sleep
\* ends and the Result Set is non-empty; while a save is in progress the
\* Result Set does not change, so the snapshot dumped and moved onto the
\* checkpoint path is the whole Result Set; and the task starts an interval
\* sleep only while some worker has not finished.
CheckpointTaskProtocol ==
  /\ [](cpPc = "saving" =>
          /\ savePc # "idle"
          /\ DOMAIN results # {}
          /\ savePc = "written" => files[TmpPath(CkptPath)] = Complete(results))
  /\ [][/\ (cpPc' = "saving" /\ cpPc # "saving") =>
            cpPc = "sleep" /\ DOMAIN results # {}
        /\ (savePc # "idle" /\ mainPc' # "killed") => results' = results
        /\ (cpPc = "saving" /\ files'[CkptPath] # files[CkptPath]) =>
            files'[CkptPath] = Complete(results)
        /\ (cpPc' = "sleep" /\ cpPc # "sleep") => AnyWorkerNotDone(wPc)
        /\ (cpPc = "sleep" /\ cpPc' = "finished") => ~AnyWorkerNotDone(wPc)]_vars

\* a periodic save of one completed target while the other is in progress
CheckpointTaskWitness ==
  /\ cpPc = "saving"
  /\ savePc = "written"
  /\ concurrency = 2
  /\ DOMAIN results = {"u1"}
  /\ files[TmpPath(CkptPath)] = Complete(results)
  /\ \E w \in DOMAIN wPc : wPc[w] = "scrape"

\* C20: the final save starts only after every worker has exited and the
\* checkpoint task was stopped, and when main has finished the checkpoint
\* file holds the whole final Result Set: every entry stored in this run
\* and every entry loaded at startup, the latter unchanged.
FinalCheckpointIsComplete ==
  /\ mainPc \in {"final_save", "saving", "done"} =>
       /\ ~AnyWorkerNotDone(wPc)
       /\ cpPc \in {"cancelled", "finished"}
  /\ mainPc = "done" =>
       /\ savePc = "idle"
       /\ files[CkptPath] = Complete(results)
       /\ files[TmpPath(CkptPath)] = Absent
       /\ \A u \in URLs : writes[u] > 0 => u \in DOMAIN files[CkptPath].data
       /\ \A u \in DOMAIN loaded :
            u \in DOMAIN files[CkptPath].data /\ files[CkptPath].data[u] = loaded[u]

\* a resumed run: u2 from the checkpoint, u1 scraped; the checkpoint task
\* had saved once and ended by itself before main stopped it
FinalCheckpointWitness ==
  /\ mainPc = "done"
  /\ resume
  /\ links = <<"u1", "u2">>
  /\ DOMAIN loaded = {"u2"}
  /\ writes["u1"] = 1
  /\ cpPc = "finished"
  /\ DOMAIN files[CkptPath].data = {"u1", "u2"}


\* task_done() calls on record for an item
AcksOf(item) == IF item \in DOMAIN acks THEN acks[item] ELSE 0

RECURSIVE SumAcks(_)
SumAcks(S) ==
  IF S = {} THEN 0
  ELSE LET item == CHOOSE x \in S : TRUE
       IN acks[item] + SumAcks(S \ {item})

\* what main has put on the queue so far: the seeded work items, and one
\* sentinel per worker once the drain wait has returned
Enqueued == Len(seeded) + (IF mainPc = "join" THEN 0 ELSE Cardinality(Workers))

InQueueOrHeld(item) ==
  \/ item \in Range(queue)
  \/ \E w \in Workers : wItem[w] = item

\* the unfinished count is the items enqueued minus the items acknowledged and
\* is never negative; a work item is acknowledged once it was dequeued and
\* processed, and only once, whether or not its processing raised; a sentinel
\* is acknowledged by the worker it ends; the drain wait is over only when
\* every seeded item is acknowledged
TaskAccounting ==
  InRun =>
    /\ unfinished >= 0
    /\ unfinished = Enqueued - SumAcks(DOMAIN acks)
    /\ DOMAIN acks \subseteq Range(seeded) \cup {Sentinel}
    /\ \A item \in Range(seeded) :
         AcksOf(item) = (IF InQueueOrHeld(item) THEN 0 ELSE 1)
    /\ AcksOf(Sentinel) = Cardinality({w \in Workers : wPc[w] = "done"})
    /\ mainPc # "join" => \A item \in Range(seeded) : AcksOf(item) = 1

\* a processing that raised assigned nothing: per url, the assignments and
\* the raises together are at most the seeded items of that url; the worker
\* that met the exception is not ended by it (a worker ends on a sentinel
\* only, and there is none before the drain wait returns)
RaiseStoresNothing ==
  InRun =>
    /\ raised \subseteq Range(seeded)
    /\ \A item \in raised : ~InQueueOrHeld(item) => AcksOf(item) = 1
    /\ \A u \in URLs :
         writes[u] + Cardinality({item \in raised : item[2] = u})
           <= Cardinality({item \in Range(seeded) : item[2] = u})
    /\ mainPc = "join" => \A w \in Workers : wPc[w] # "done"

\* C21: every dequeued item is acknowledged exactly once, also after an
\* exception; the unfinished count is items enqueued minus items acknowledged
\* and never negative; the drain wait returns only when every seeded item is
\* acknowledged; a worker that hit an exception writes no entry for that
\* target and stays alive; and the target of a processing that raised has a
\* placeholder row in the assembled list.
RaisedTargetGetsPlaceholder ==
  /\ TaskAccounting
  /\ RaiseStoresNothing
  /\ Assembled =>
       \A item \in raised : rows[item[1] + 1] = Placeholder(item[2])

\* the same, for the targets no other processing stored an entry for
RaisedTargetGetsPlaceholderUnlessStored ==
  /\ TaskAccounting
  /\ RaiseStoresNothing
  /\ Assembled =>
       \A item \in raised :
         writes[item[2]] = 0 => rows[item[1] + 1] = Placeholder(item[2])

\* a run is over, one processing raised, was acknowledged, and its target
\* has its placeholder row
RaisedTargetWitness ==
  /\ mainPc = "done"
  /\ \E item \in raised :
       /\ AcksOf(item) = 1
       /\ rows[item[1] + 1] = Placeholder(item[2])

====
